---------------------------- MODULE Spec2Model ----------------------------
(***************************************************************************)
(* A model of courses/views.py: the request handlers of the course         *)
(* application over the relational store they read and write (Course,      *)
(* Module, Lecture, Enrollment, LectureProgress).                           *)
(*                                                                         *)
(* Handlers that write are actions; handlers that only read (they render   *)
(* a context computed from the store) are operators giving that context.   *)
(***************************************************************************)
EXTENDS Integers, Sequences, FiniteSets, Bags, TLC

(***************************************************************************)
(* Bounds of the model.                                                    *)
(***************************************************************************)
\* largest lecture count the percentage computation is applied to on its own
MaxTotal == 50
\* rows the Course, Module, Lecture and Enrollment tables may grow to
MaxCourses == 2
MaxModules == 2
MaxLectures == 2
MaxEnrollments == 3
\* a course submission: module indices 0..MaxModules-1, lecture indices
\* 0..MaxLectureIndex, at most MaxFields module and lecture titles supplied
MaxLectureIndex == 2
MaxFields == 4
\* requests in flight at once
MaxRequests == 3

\* the accounts of the users application, each with its role
Students == {"s1", "s2"}
Instructors == {"i1", "i2"}
Users == Students \cup Instructors

(***************************************************************************)
(* Python's float arithmetic, as used by                                   *)
(*     int((completed / total * 100) if total else 0)                      *)
(* A positive double is [m |-> <<1, l2, l3, l4, l5>>, e |-> k]: the 53-bit *)
(* significand as a leading 1 and four 13-bit limbs, most significant      *)
(* first, and the value m * 2^e.  Zero is FloatZero.  No intermediate      *)
(* value here exceeds 31 bits.                                              *)
(***************************************************************************)
MantissaBits == 53
LimbBits == 13
Base == 2 ^ LimbBits
Half == Base \div 2

FloatZero == [m |-> << >>, e |-> 0]

RECURSIVE BitLen(_)
\* the number of binary digits of a natural number
BitLen(n) == IF n = 0 THEN 0 ELSE 1 + BitLen(n \div 2)

\* how a dropped remainder r compares with half of d, the unit it is a part of:
\* 0 nothing dropped, 1 under half, 2 exactly half, 3 over half
HalfClass(r, d) ==
    IF r = 0 THEN 0 ELSE IF 2 * r < d THEN 1 ELSE IF 2 * r = d THEN 2 ELSE 3

RECURSIVE IncLimbs(_)
\* the significand plus one unit in the last place
IncLimbs(m) ==
    LET n == Len(m)
    IN  IF n = 1 \/ m[n] + 1 < Base THEN [m EXCEPT ![n] = m[n] + 1]
        ELSE Append(IncLimbs(SubSeq(m, 1, n - 1)), 0)

\* round-half-to-even of the exact value m * 2^e plus a dropped part of class
\* "below" (see HalfClass)
RoundEven(m, e, below) ==
    LET up == below = 3 \/ (below = 2 /\ m[Len(m)] % 2 = 1)
        sum == IF up THEN IncLimbs(m) ELSE m
    IN  IF sum[1] = 2                  \* carried out of 53 bits: 2^53 = 1.0 * 2^53
        THEN [m |-> [i \in 1..Len(m) |-> IF i = 1 THEN 1 ELSE 0], e |-> e + 1]
        ELSE [m |-> sum, e |-> e]

\* float(n) for a natural number n below 2^14: exact
FloatOfNat(n) ==
    IF n = 0 THEN FloatZero
    ELSE LET k == BitLen(n) - 1                \* n = 2^k + rest, rest < 2^k
         IN  [m |-> <<1, (n - 2 ^ k) * 2 ^ (LimbBits - k), 0, 0, 0>>,
              e |-> k - (MantissaBits - 1)]

RECURSIVE ScaleUp(_, _, _)
\* the least k with a * 2^k >= b, and a * 2^k
ScaleUp(a, b, k) == IF a >= b THEN <<a, k>> ELSE ScaleUp(2 * a, b, k + 1)

RECURSIVE ScaleDown(_, _, _)
\* the largest k with a >= b * 2^k, and b * 2^k
ScaleDown(a, b, k) == IF a < 2 * b THEN <<b, k>> ELSE ScaleDown(a, 2 * b, k + 1)

RECURSIVE QuotientLimbs(_, _, _)
\* n limbs of the expansion of r / d (r < d) in base 2^13, then the remainder
QuotientLimbs(r, d, n) ==
    IF n = 0 THEN <<<< >>, r>>
    ELSE LET x == r * Base
             rest == QuotientLimbs(x % d, d, n - 1)
         IN  <<<<x \div d>> \o rest[1], rest[2]>>

\* a / b for naturals a >= 0, b > 0 (below 2^17) as Python computes it: the
\* double nearest to the exact quotient
TrueDiv(a, b) ==
    IF a = 0 THEN FloatZero
    ELSE LET up == ScaleUp(a, b, 0)            \* a * 2^k in [b, 2b) when a < b
             dn == ScaleDown(a, b, 0)          \* b * 2^k in (a/2, a] when a >= b
             num == IF a < b THEN up[1] ELSE a
             den == IF a < b THEN b ELSE dn[1]
             sh  == IF a < b THEN -up[2] ELSE dn[2]
             q   == QuotientLimbs(num - den, den, 4)
         IN  RoundEven(<<1>> \o q[1], sh - (MantissaBits - 1), HalfClass(q[2], den))

\* the coefficient of Base^(10-k) in the product of two significands
Coefficient(a, b, k) ==
    LET T(i) == IF i >= 1 /\ i <= 5 /\ k - i >= 1 /\ k - i <= 5
                THEN a[i] * b[k - i] ELSE 0
    IN  T(1) + T(2) + T(3) + T(4) + T(5)

RECURSIVE Carry(_, _)
\* the coefficients c (most significant first) with carries propagated: every
\* limb but the first below Base
Carry(c, carry) ==
    LET n == Len(c)
    IN  IF n = 1 THEN <<c[1] + carry>>
        ELSE Append(Carry(SubSeq(c, 1, n - 1), (c[n] + carry) \div Base),
                    (c[n] + carry) % Base)

\* x * y for doubles as the hardware computes it: the exact product rounded to
\* the nearest double
FloatMul(x, y) ==
    IF x = FloatZero \/ y = FloatZero THEN FloatZero
    ELSE LET p == Carry([k \in 1..9 |-> Coefficient(x.m, y.m, k + 1)], 0)
             \* p: 105 or 106 bits, p[1] \in 1..3; p[6..9] are the low 52 bits
             low == p[6] * Base + p[7]
             sticky == p[8] # 0 \/ p[9] # 0
             below52 == IF low = 0 /\ ~sticky THEN 0
                        ELSE IF p[6] < Half THEN 1
                        ELSE IF p[6] = Half /\ p[7] = 0 /\ ~sticky THEN 2
                        ELSE 3
             shifted == [i \in 1..5 |->
                            IF i = 1 THEN p[1] \div 2
                            ELSE (p[i - 1] % 2) * Half + p[i] \div 2]
             below53 == IF p[5] % 2 = 0
                        THEN (IF below52 = 0 THEN 0 ELSE 1)
                        ELSE (IF below52 = 0 THEN 2 ELSE 3)
         IN  IF p[1] = 1
             THEN RoundEven(SubSeq(p, 1, 5), x.e + y.e + 4 * LimbBits, below52)
             ELSE RoundEven(shifted, x.e + y.e + 4 * LimbBits + 1, below53)

RECURSIVE NatOfLimbs(_)
NatOfLimbs(m) ==
    IF m = << >> THEN 0
    ELSE NatOfLimbs(SubSeq(m, 1, Len(m) - 1)) * Base + m[Len(m)]

\* int(x) for a double 0 <= x < 2^27: truncation
IntOfFloat(x) ==
    IF x = FloatZero \/ -x.e >= MantissaBits THEN 0
    ELSE LET drop == -x.e                      \* bits after the binary point
             whole == drop \div LimbBits
         IN  NatOfLimbs(SubSeq(x.m, 1, 5 - whole)) \div 2 ^ (drop % LimbBits)

\* int((completed / total * 100) if total else 0)
progress_percent(completed, total) ==
    IF total # 0 THEN IntOfFloat(FloatMul(TrueDiv(completed, total), FloatOfNat(100))) ELSE 0


(***************************************************************************)
(* The store.  Course, Module, Lecture and Enrollment are sequences of     *)
(* rows in insertion order (the order an unordered QuerySet yields them    *)
(* in); LectureProgress is a bag of rows, since no handler reads its       *)
(* order.  calc is the percentage computation run on its own, reqs the     *)
(* requests in flight when handlers interleave, last the outcome of the    *)
(* latest writing request.                                                 *)
(***************************************************************************)
VARIABLES Course, Module, Lecture, Enrollment, LectureProgress, last, reqs, calc

store == <<Course, Module, Lecture, Enrollment, LectureProgress>>
vars == <<Course, Module, Lecture, Enrollment, LectureProgress, last, reqs, calc>>

\* request.user.role
role(u) == IF u \in Students THEN "student" ELSE "instructor"

Range(seq) == {seq[i] : i \in 1..Len(seq)}

\* the AutoField value of the next row of a table (no handler removes a row)
NextId(table) == Len(table) + 1

\* the columns of Lecture a lookup can name: a lecture reaches its course
\* through its module only
LectureFields == {"id", "module", "title", "video"}

RECURSIVE SumSeq(_)
SumSeq(seq) == IF seq = << >> THEN 0 ELSE Head(seq) + SumSeq(Tail(seq))

\* QuerySet.count() over a bag of rows
CountRows(bag, Keep(_)) ==
    BagCardinality([r \in {x \in BagToSet(bag) : Keep(x)} |-> bag[r]])

\* Lecture.objects.filter(module__course=course)
LecturesOfCourse(course_id) ==
    SelectSeq(Lecture, LAMBDA l :
        \E m \in Range(Module) : m.id = l.module /\ m.course = course_id)

\* Enrollment rows matching course_id=..., student=...
EnrollmentRows(u, course_id) ==
    SelectSeq(Enrollment, LAMBDA e : e.student = u /\ e.course = course_id)

\* LectureProgress rows matching student=..., lecture=...
ProgressRows(u, lecture_id) ==
    CountRows(LectureProgress, LAMBDA p : p.student = u /\ p.lecture = lecture_id)

\* LectureProgress.objects.filter(student=..., lecture__in=lectures,
\*                                completed=True).count()
CompletedIn(u, lectures) ==
    CountRows(LectureProgress, LAMBDA p :
        /\ p.student = u
        /\ \E l \in Range(lectures) : l.id = p.lecture
        /\ p.completed)

(***************************************************************************)
(* Handlers that only read: the context each renders.                      *)
(***************************************************************************)

\* student_progress with the percentage computed without the test of total
student_progress_unguarded(u, course_id) ==
    LET enrollment == EnrollmentRows(u, course_id)
        lectures == LecturesOfCourse(course_id)
        total == Len(lectures)
        completed == IF total > 0 THEN CompletedIn(u, lectures) ELSE 0
    IN  IF Len(enrollment) = 0 THEN [status |-> "404"]
        ELSE IF Len(enrollment) > 1 THEN [status |-> "MultipleObjectsReturned"]
        ELSE IF total = 0 THEN [status |-> "ZeroDivisionError"]
        ELSE [status |-> "200", course |-> course_id, total |-> total,
              completed |-> completed,
              progress_percent |->
                  IntOfFloat(FloatMul(TrueDiv(completed, total), FloatOfNat(100)))]

\* student_progress: the overall progress of a student in a course
student_progress(u, course_id) ==
    LET enrollment == EnrollmentRows(u, course_id)
        lectures == LecturesOfCourse(course_id)
        total == Len(lectures)
        completed == IF total > 0 THEN CompletedIn(u, lectures) ELSE 0
    IN  IF Len(enrollment) = 0 THEN [status |-> "404"]
        ELSE IF Len(enrollment) > 1 THEN [status |-> "MultipleObjectsReturned"]
        ELSE [status |-> "200", course |-> course_id, total |-> total,
              completed |-> completed,
              progress_percent |-> progress_percent(completed, total)]

\* student_course_detail: the same figures, with the per-lecture map
student_course_detail(u, course_id) ==
    LET enrollment == EnrollmentRows(u, course_id)
        lectures == LecturesOfCourse(course_id)
        total == Len(lectures)
        completed == IF total > 0 THEN CompletedIn(u, lectures) ELSE 0
        rows == {p \in BagToSet(LectureProgress) :
                    p.student = u /\ \E l \in Range(lectures) : l.id = p.lecture}
        \* a dict comprehension: a later row of a lecture replaces an earlier one,
        \* and the rows come in no stated order
        progress_map == [id \in {p.lecture : p \in rows} |->
                            {p.completed : p \in {q \in rows : q.lecture = id}}]
    IN  IF Len(enrollment) = 0 THEN [status |-> "404"]
        ELSE IF Len(enrollment) > 1 THEN [status |-> "MultipleObjectsReturned"]
        ELSE [status |-> "200", course |-> course_id,
              lectures |-> [i \in 1..total |-> lectures[i].id], total |-> total,
              completed |-> completed, progress_map |-> progress_map,
              progress_percent |-> progress_percent(completed, total)]

\* course_progress_report counting a student's completed rows in every course
course_progress_report_all_courses(u, course_id) ==
    LET course == SelectSeq(Course, LAMBDA c : c.id = course_id /\ c.instructor = u)
        enrollments == SelectSeq(Enrollment, LAMBDA e : e.course = course_id)
        modules == SelectSeq(Module, LAMBDA m : m.course = course_id)
        total_lectures ==
            SumSeq([i \in 1..Len(modules) |->
                Len(SelectSeq(Lecture, LAMBDA l : l.module = modules[i].id))])
        completed(student) ==
            CountRows(LectureProgress, LAMBDA p : p.student = student /\ p.completed)
        row(e) ==
            [student |-> e.student, completed |-> completed(e.student),
             total |-> total_lectures,
             progress |-> IF total_lectures # 0
                          THEN FloatMul(TrueDiv(completed(e.student), total_lectures),
                                        FloatOfNat(100))
                          ELSE FloatZero]
    IN  IF Len(course) = 0 THEN [status |-> "404"]
        ELSE [status |-> "200", course |-> course_id,
              progress_data |-> [i \in 1..Len(enrollments) |-> row(enrollments[i])]]

\* course_progress_report: one row per enrollment on a course of the instructor
course_progress_report(u, course_id) ==
    LET course == SelectSeq(Course, LAMBDA c : c.id = course_id /\ c.instructor = u)
        enrollments == SelectSeq(Enrollment, LAMBDA e : e.course = course_id)
        modules == SelectSeq(Module, LAMBDA m : m.course = course_id)
        \* sum(module.lectures.count() for module in course.modules.all())
        total_lectures ==
            SumSeq([i \in 1..Len(modules) |->
                Len(SelectSeq(Lecture, LAMBDA l : l.module = modules[i].id))])
        \* filter(student=..., lecture__module__course=course, completed=True).count()
        completed(student) ==
            CountRows(LectureProgress, LAMBDA p :
                /\ p.student = student
                /\ \E l \in Range(Lecture) : \E m \in Range(Module) :
                      l.id = p.lecture /\ m.id = l.module /\ m.course = course_id
                /\ p.completed)
        row(e) ==
            [student |-> e.student, completed |-> completed(e.student),
             total |-> total_lectures,
             progress |-> IF total_lectures # 0
                          THEN FloatMul(TrueDiv(completed(e.student), total_lectures),
                                        FloatOfNat(100))
                          ELSE FloatZero]
    IN  IF Len(course) = 0 THEN [status |-> "404"]
        ELSE [status |-> "200", course |-> course_id,
              progress_data |-> [i \in 1..Len(enrollments) |-> row(enrollments[i])]]

\* Course.students: the students holding an Enrollment on the course
students(c) == {e.student : e \in {x \in Range(Enrollment) : x.course = c.id}}

\* Course.enrollments: the Enrollment rows of the course
enrollments(c) == SelectSeq(Enrollment, LAMBDA e : e.course = c.id)

\* browse_courses without the exclude
browse_courses_all(u) ==
    IF role(u) # "student" THEN [status |-> "redirect"]
    ELSE [status |-> "200", courses |-> Course]

\* browse_courses: the courses the student is not enrolled in
browse_courses(u) ==
    IF role(u) # "student" THEN [status |-> "redirect"]
    ELSE [status |-> "200",
          courses |-> SelectSeq(Course, LAMBDA c : u \notin students(c))]

RECURSIVE Repeat(_, _)
Repeat(x, n) == IF n = 0 THEN << >> ELSE <<x>> \o Repeat(x, n - 1)

RECURSIVE JoinEnrollments(_, _)
\* Course joined with its enrollments of student u: a course once per such row
JoinEnrollments(courses, u) ==
    IF courses = << >> THEN << >>
    ELSE Repeat(Head(courses),
                Len(SelectSeq(enrollments(Head(courses)), LAMBDA e : e.student = u)))
         \o JoinEnrollments(Tail(courses), u)

\* student_dashboard: Course.objects.filter(enrollments__student=request.user)
student_dashboard(u) ==
    IF role(u) # "student" THEN [status |-> "redirect"]
    ELSE [status |-> "200", enrolled_courses |-> JoinEnrollments(Course, u)]

\* student_course_list: every course, flagged is_enrolled
student_course_list(u) ==
    IF role(u) # "student" THEN [status |-> "redirect"]
    ELSE LET enrolled_ids ==
                 {e.course : e \in {x \in Range(Enrollment) : x.student = u}}
         IN  [status |-> "200",
              courses |-> [i \in 1..Len(Course) |->
                              [id |-> Course[i].id,
                               is_enrolled |-> Course[i].id \in enrolled_ids]]]

(***************************************************************************)
(* Course submissions.  request.POST maps the keys that were sent to       *)
(* strings: form holds the course form's keys and modules-TOTAL_FORMS,     *)
(* titles the key modules-<i>-title at <<i>> and the key                   *)
(* modules-<i>-lectures-<j>-title at <<i, j>>.                              *)
(***************************************************************************)
None == "None"

\* request.POST.get(key, default)
PostGet(fields, key, default) == IF key \in DOMAIN fields THEN fields[key] ELSE default

\* the truth value Python gives a value of request.POST.get
Truthy(v) == v # None /\ v # ""

\* CourseForm.is_valid(): the required title is there
FormValid(form) == Truthy(PostGet(form, "title", None))

\* the numbers int() may be asked to parse
Numerals == 0..(MaxModules + 1)

\* int(text): the number the text spells; ParsesAsInt says whether there is one
ParsesAsInt(text) == \E n \in Numerals : ToString(n) = text
IntOf(text) == CHOOSE n \in Numerals : ToString(n) = text

RECURSIVE AddLectures_skip_gaps(_, _, _, _, _)
\* the loop passing over an index with no title (continue for break)
AddLectures_skip_gaps(post, i, lecture_index, module_id, lectures) ==
    LET lecture_title == PostGet(post.titles, <<i, lecture_index>>, None)
    IN  IF lecture_index > MaxLectureIndex THEN lectures
        ELSE AddLectures_skip_gaps(post, i, lecture_index + 1, module_id,
                 IF Truthy(lecture_title)
                 THEN Append(lectures, [id |-> NextId(lectures), module |-> module_id,
                                        title |-> lecture_title])
                 ELSE lectures)

RECURSIVE AddLectures(_, _, _, _, _)
\* the while loop over lecture_index: a lecture for each titled index, up to
\* the first index with no title
AddLectures(post, i, lecture_index, module_id, lectures) ==
    LET lecture_title == PostGet(post.titles, <<i, lecture_index>>, None)
    IN  IF ~Truthy(lecture_title) THEN lectures
        ELSE AddLectures(post, i, lecture_index + 1, module_id,
                 Append(lectures, [id |-> NextId(lectures), module |-> module_id,
                                   title |-> lecture_title]))

RECURSIVE AddModules(_, _, _, _, _)
\* the for loop over range(module_total), from index i on; tables holds the
\* Module and Lecture tables so far
AddModules(post, i, module_total, course_id, tables) ==
    IF i >= module_total THEN tables
    ELSE LET title == PostGet(post.titles, <<i>>, None)
             module == [id |-> NextId(tables.Module), course |-> course_id,
                        title |-> title]
         IN  IF Truthy(title)
             THEN AddModules(post, i + 1, module_total, course_id,
                      [Module |-> Append(tables.Module, module),
                       Lecture |-> AddLectures(post, i, 0, module.id, tables.Lecture)])
             ELSE AddModules(post, i + 1, module_total, course_id, tables)

\* the tables after add_course's loops, for a well-formed module count
Authored(post, course_id) ==
    AddModules(post, 0, IntOf(PostGet(post.form, "modules-TOTAL_FORMS", "0")),
               course_id, [Module |-> Module, Lecture |-> Lecture])

(***************************************************************************)
(* Handlers that write.  Each sets last to what the request came to, with  *)
(* the body it was sent.                                                   *)
(***************************************************************************)
\* a request without a body has body NoBody
NoBody == << >>

Outcome(op, status, body) == [op |-> op, status |-> status, body |-> body]

\* add_course, a POST: every save commits as it is made
add_course(u, post) ==
    LET course == [id |-> NextId(Course), title |-> post.form["title"],
                   instructor |-> u]
        count == PostGet(post.form, "modules-TOTAL_FORMS", "0")
    IN  IF ~FormValid(post.form)
        THEN \* falls through to the context of line 193, where module_formset
             \* was never bound
             /\ last' = Outcome("add_course", "UnboundLocalError", post)
             /\ UNCHANGED <<store, reqs, calc>>
        ELSE IF ~ParsesAsInt(count)
        THEN \* course.save() is done when int() raises
             /\ Course' = Append(Course, course)
             /\ last' = Outcome("add_course", "ValueError", post)
             /\ UNCHANGED <<Module, Lecture, Enrollment, LectureProgress, reqs, calc>>
        ELSE /\ Course' = Append(Course, course)
             /\ Module' = Authored(post, course.id).Module
             /\ Lecture' = Authored(post, course.id).Lecture
             /\ last' = Outcome("add_course", "redirect", post)
             /\ UNCHANGED <<Enrollment, LectureProgress, reqs, calc>>

\* course_edit, a POST with the form's fields
course_edit(u, course_id, form) ==
    LET found == {i \in 1..Len(Course) :
                     Course[i].id = course_id /\ Course[i].instructor = u}
    IN  IF found = {}
        THEN /\ last' = Outcome("course_edit", "404", form)
             /\ UNCHANGED <<store, reqs, calc>>
        ELSE IF ~FormValid(form)
        THEN /\ last' = Outcome("course_edit", "form_invalid", form)
             /\ UNCHANGED <<store, reqs, calc>>
        ELSE /\ Course' = [i \in 1..Len(Course) |->
                              IF i \in found
                              THEN [Course[i] EXCEPT !.title = form["title"]]
                              ELSE Course[i]]
             /\ last' = Outcome("course_edit", "redirect", form)
             /\ UNCHANGED <<Module, Lecture, Enrollment, LectureProgress, reqs, calc>>

\* enroll_course with Enrollment.objects.create for get_or_create
enroll_course_create(u, course_id) ==
    IF role(u) # "student"
    THEN /\ last' = Outcome("enroll_course", "redirect_login", NoBody)
         /\ UNCHANGED <<store, reqs, calc>>
    ELSE IF ~\E c \in Range(Course) : c.id = course_id
    THEN /\ last' = Outcome("enroll_course", "404", NoBody)
         /\ UNCHANGED <<store, reqs, calc>>
    ELSE /\ Enrollment' = Append(Enrollment, [student |-> u, course |-> course_id])
         /\ last' = Outcome("enroll_course", "created", NoBody)
         /\ UNCHANGED <<Course, Module, Lecture, LectureProgress, reqs, calc>>

\* enroll_course: Enrollment.objects.get_or_create(student=..., course=...)
enroll_course(u, course_id) ==
    IF role(u) # "student"
    THEN /\ last' = Outcome("enroll_course", "redirect_login", NoBody)
         /\ UNCHANGED <<store, reqs, calc>>
    ELSE IF ~\E c \in Range(Course) : c.id = course_id
    THEN /\ last' = Outcome("enroll_course", "404", NoBody)
         /\ UNCHANGED <<store, reqs, calc>>
    ELSE IF Len(EnrollmentRows(u, course_id)) > 1
    THEN /\ last' = Outcome("enroll_course", "MultipleObjectsReturned", NoBody)
         /\ UNCHANGED <<store, reqs, calc>>
    ELSE IF Len(EnrollmentRows(u, course_id)) = 1
    THEN /\ last' = Outcome("enroll_course", "existing", NoBody)
         /\ UNCHANGED <<store, reqs, calc>>
    ELSE /\ Enrollment' = Append(Enrollment, [student |-> u, course |-> course_id])
         /\ last' = Outcome("enroll_course", "created", NoBody)
         /\ UNCHANGED <<Course, Module, Lecture, LectureProgress, reqs, calc>>

\* the rows with that of (u, lecture_id) marked completed: the setattr and
\* save of update_or_create's defaults
MarkedCompleted(u, lecture_id) ==
    LET done(p) == IF p.student = u /\ p.lecture = lecture_id
                   THEN [p EXCEPT !.completed = TRUE] ELSE p
        rows == BagToSet(LectureProgress)
    IN  [r \in {done(p) : p \in rows} |->
            BagCardinality([p \in {q \in rows : done(q) = r} |-> LectureProgress[p]])]

\* mark_lecture_complete with get_or_create for update_or_create: a row that
\* is there is left as it is
mark_lecture_complete_get_or_create(u, lecture_id) ==
    IF ~\E l \in Range(Lecture) : l.id = lecture_id
    THEN /\ last' = Outcome("mark_lecture_complete", "404", NoBody)
         /\ UNCHANGED <<store, reqs, calc>>
    ELSE IF role(u) # "student"
    THEN /\ last' = Outcome("mark_lecture_complete", "redirect_login", NoBody)
         /\ UNCHANGED <<store, reqs, calc>>
    ELSE IF ProgressRows(u, lecture_id) > 1
    THEN /\ last' = Outcome("mark_lecture_complete", "MultipleObjectsReturned", NoBody)
         /\ UNCHANGED <<store, reqs, calc>>
    ELSE IF ProgressRows(u, lecture_id) = 1
    THEN /\ last' = Outcome("mark_lecture_complete", "updated", NoBody)
         /\ UNCHANGED <<store, reqs, calc>>
    ELSE /\ LectureProgress' = LectureProgress (+)
                SetToBag({[student |-> u, lecture |-> lecture_id, completed |-> TRUE]})
         /\ last' = Outcome("mark_lecture_complete", "created", NoBody)
         /\ UNCHANGED <<Course, Module, Lecture, Enrollment, reqs, calc>>

\* mark_lecture_complete: LectureProgress.objects.update_or_create(
\*     student=..., lecture=..., defaults={'completed': True})
mark_lecture_complete(u, lecture_id) ==
    IF ~\E l \in Range(Lecture) : l.id = lecture_id
    THEN /\ last' = Outcome("mark_lecture_complete", "404", NoBody)
         /\ UNCHANGED <<store, reqs, calc>>
    ELSE IF role(u) # "student"
    THEN /\ last' = Outcome("mark_lecture_complete", "redirect_login", NoBody)
         /\ UNCHANGED <<store, reqs, calc>>
    ELSE IF ProgressRows(u, lecture_id) > 1
    THEN /\ last' = Outcome("mark_lecture_complete", "MultipleObjectsReturned", NoBody)
         /\ UNCHANGED <<store, reqs, calc>>
    ELSE IF ProgressRows(u, lecture_id) = 1
    THEN /\ LectureProgress' = MarkedCompleted(u, lecture_id)
         /\ last' = Outcome("mark_lecture_complete", "updated", NoBody)
         /\ UNCHANGED <<Course, Module, Lecture, Enrollment, reqs, calc>>
    ELSE /\ LectureProgress' = LectureProgress (+)
                SetToBag({[student |-> u, lecture |-> lecture_id, completed |-> TRUE]})
         /\ last' = Outcome("mark_lecture_complete", "created", NoBody)
         /\ UNCHANGED <<Course, Module, Lecture, Enrollment, reqs, calc>>

\* delete_lecture: the lookup get_object_or_404(Lecture, id=..., course__id=...,
\* course__instructor=...) names a column Lecture does not have, so the ORM
\* raises FieldError before any row is read
delete_lecture(u, course_id, lecture_id) ==
    IF "course" \notin LectureFields
    THEN /\ last' = Outcome("delete_lecture", "FieldError", NoBody)
         /\ UNCHANGED <<store, reqs, calc>>
    ELSE IF ~\E l \in Range(Lecture) :
                /\ l.id = lecture_id
                /\ \E c \in Range(Course) :
                      c.id = l.course /\ c.id = course_id /\ c.instructor = u
    THEN /\ last' = Outcome("delete_lecture", "404", NoBody)
         /\ UNCHANGED <<store, reqs, calc>>
    ELSE /\ Lecture' = SelectSeq(Lecture, LAMBDA l : l.id # lecture_id)
         /\ last' = Outcome("delete_lecture", "redirect", NoBody)
         /\ UNCHANGED <<Course, Module, Enrollment, LectureProgress, reqs, calc>>

(***************************************************************************)
(* Handlers in flight together.  A request is [op, user, target, pc]; its  *)
(* pc walks the statements get_or_create and update_or_create issue: the   *)
(* SELECT ("get"), the INSERT ("create"), the SELECT after a refused       *)
(* INSERT ("conflict"), and update_or_create's UPDATE ("save").             *)
(***************************************************************************)
\* the tables whose (student, course) or (student, lecture) pair the storage
\* layer keeps unique
UniqueTogether == {"Enrollment", "LectureProgress"}

\* the rows of request r's pair there are now
RowsOf(r) ==
    IF r.op = "enroll_course" THEN Len(EnrollmentRows(r.user, r.target))
    ELSE ProgressRows(r.user, r.target)

TableOf(r) == IF r.op = "enroll_course" THEN "Enrollment" ELSE "LectureProgress"

\* where a request goes once it holds the row, which it did not create
AfterGet(r) == IF r.op = "enroll_course" THEN "existing" ELSE "save"

\* self.get(**kwargs)
Get(i) ==
    /\ reqs[i].pc = "get"
    /\ reqs' = [reqs EXCEPT ![i].pc =
                   IF RowsOf(reqs[i]) = 0 THEN "create"
                   ELSE IF RowsOf(reqs[i]) = 1 THEN AfterGet(reqs[i])
                   ELSE "MultipleObjectsReturned"]
    /\ UNCHANGED <<store, last, calc>>

\* self.create(**params) inside transaction.atomic(): the INSERT, refused with
\* IntegrityError when the pair is there and kept unique
Create(i) ==
    LET r == reqs[i]
    IN  /\ r.pc = "create"
        /\ IF RowsOf(r) > 0 /\ TableOf(r) \in UniqueTogether
           THEN /\ reqs' = [reqs EXCEPT ![i].pc = "conflict"]
                /\ UNCHANGED <<store, last, calc>>
           ELSE /\ reqs' = [reqs EXCEPT ![i].pc = "created"]
                /\ IF r.op = "enroll_course"
                   THEN /\ Enrollment' = Append(Enrollment,
                               [student |-> r.user, course |-> r.target])
                        /\ UNCHANGED LectureProgress
                   ELSE /\ LectureProgress' = LectureProgress (+) SetToBag(
                               {[student |-> r.user, lecture |-> r.target,
                                 completed |-> TRUE]})
                        /\ UNCHANGED Enrollment
                /\ UNCHANGED <<Course, Module, Lecture, last, calc>>

\* the refused INSERT left to fail the request (create with no except)
Reget_raise(i) ==
    /\ reqs[i].pc = "conflict"
    /\ reqs' = [reqs EXCEPT ![i].pc = "IntegrityError"]
    /\ UNCHANGED <<store, last, calc>>

\* except IntegrityError: return self.get(**kwargs), False
Reget(i) ==
    /\ reqs[i].pc = "conflict"
    /\ reqs' = [reqs EXCEPT ![i].pc =
                   IF RowsOf(reqs[i]) = 1 THEN AfterGet(reqs[i])
                   ELSE IF RowsOf(reqs[i]) = 0 THEN "IntegrityError"
                   ELSE "MultipleObjectsReturned"]
    /\ UNCHANGED <<store, last, calc>>

\* update_or_create on a row it did not create: setattr(obj, 'completed', True)
\* and obj.save()
Save(i) ==
    /\ reqs[i].pc = "save"
    /\ LectureProgress' = MarkedCompleted(reqs[i].user, reqs[i].target)
    /\ reqs' = [reqs EXCEPT ![i].pc = "updated"]
    /\ UNCHANGED <<Course, Module, Lecture, Enrollment, last, calc>>

(***************************************************************************)
(* Specifications.                                                         *)
(***************************************************************************)
NoOutcome == Outcome("none", "none", NoBody)
Idle == [pc |-> "idle", total |-> 0, completed |-> 0, percent |-> 0]

EmptyStore ==
    /\ Course = << >> /\ Module = << >> /\ Lecture = << >>
    /\ Enrollment = << >> /\ LectureProgress = EmptyBag

\* a store holding one course of one lecture
OneLecture ==
    /\ Course = <<[id |-> 1, title |-> "t", instructor |-> "i1"]>>
    /\ Module = <<[id |-> 1, course |-> 1, title |-> "t"]>>
    /\ Lecture = <<[id |-> 1, module |-> 1, title |-> "t"]>>
    /\ Enrollment = << >>

\* ... and a LectureProgress row written with completed left False
Unfinished == SetToBag({[student |-> "s1", lecture |-> 1, completed |-> FALSE]})

Init ==
    /\ EmptyStore \/ (OneLecture /\ LectureProgress = Unfinished)
    /\ last = NoOutcome /\ reqs = << >> /\ calc = Idle

\* the submissions of a form filled in without gaps: n modules, the i-th with
\* ks[i] lectures
FilledIn(ks) ==
    [form |-> [k \in {"title", "modules-TOTAL_FORMS"} |->
                  IF k = "title" THEN "t" ELSE ToString(Len(ks))],
     titles |-> [k \in {<<i - 1>> : i \in 1..Len(ks)} \cup
                       {<<i - 1, j>> : i \in 1..Len(ks), j \in 0..MaxLectureIndex}
                 |-> IF Len(k) = 1 \/ k[2] < ks[k[1] + 1] THEN "t" ELSE ""]]

FilledInPosts ==
    {FilledIn(ks) : ks \in UNION {[1..n -> 0..MaxLectures] : n \in 0..MaxModules}}

\* whether the tables have room for what a submission adds
Room(post) ==
    /\ Len(Course) < MaxCourses
    /\ FormValid(post.form) /\ ParsesAsInt(PostGet(post.form, "modules-TOTAL_FORMS", "0"))
          => /\ Len(Authored(post, NextId(Course)).Module) <= MaxModules
             /\ Len(Authored(post, NextId(Course)).Lecture) <= MaxLectures

\* who sends the requests: the students, and the instructor who authors
Requesters == Students \cup {"i1"}

AddCourse == \E post \in FilledInPosts : Room(post) /\ add_course("i1", post)

EnrollCourse ==
    \E u \in Requesters, c \in 1..MaxCourses :
        (Len(Enrollment) < MaxEnrollments \/ Len(EnrollmentRows(u, c)) > 0)
        /\ enroll_course(u, c)

MarkLectureComplete ==
    \E u \in Requesters, l \in 1..MaxLectures : mark_lecture_complete(u, l)

DeleteLecture ==
    \E c \in 1..MaxCourses, l \in 1..MaxLectures : delete_lecture("i1", c, l)

Next == AddCourse \/ EnrollCourse \/ MarkLectureComplete \/ DeleteLecture

Spec == Init /\ [][Next]_vars

\* the submissions: a form with or without a title and a module count, and at
\* most MaxFields titles among the module and lecture keys
TitleKeys ==
    {<<i>> : i \in 0..(MaxModules - 1)} \cup
    {<<i, j>> : i \in 0..(MaxModules - 1), j \in 0..MaxLectureIndex}

Forms ==
    UNION {[D -> {"", "t", "abc"} \cup {ToString(n) : n \in Numerals}] :
              D \in SUBSET {"title", "modules-TOTAL_FORMS"}}

PostForms ==
    {g \in Forms :
        /\ PostGet(g, "title", "t") \in {"", "t"}
        /\ PostGet(g, "modules-TOTAL_FORMS", "abc") \notin {"", "t"}}

PostTitles ==
    UNION {[D -> {"", "t"}] :
              D \in {S \in SUBSET TitleKeys : Cardinality(S) <= MaxFields}}

InitAuthor ==
    /\ EmptyStore \/ (OneLecture /\ LectureProgress = EmptyBag)
    /\ last = NoOutcome /\ reqs = << >> /\ calc = Idle

\* one submission into the store, then edits of the courses
Submit ==
    /\ last = NoOutcome
    /\ \E f \in PostForms, t \in PostTitles :
          add_course("i1", [form |-> f, titles |-> t])

EditForms == {g \in Forms : DOMAIN g \subseteq {"title"} /\ PostGet(g, "title", "") \in {"", "t", "abc"}}

CourseEdit ==
    \E u \in Instructors, c \in 1..MaxCourses, f \in EditForms : course_edit(u, c, f)

NextAuthor == Submit \/ CourseEdit

SpecAuthor == InitAuthor /\ [][NextAuthor]_vars

\* requests by students for the course and the lecture of the store
InitConc ==
    /\ OneLecture
    /\ LectureProgress \in {EmptyBag, Unfinished}
    /\ reqs \in [1..MaxRequests ->
                    [op : {"enroll_course", "mark_lecture_complete"},
                     user : Students, target : {1}, pc : {"get"}]]
    /\ last = NoOutcome /\ calc = Idle

NextConc ==
    \/ \E i \in DOMAIN reqs : Get(i)
    \/ \E i \in DOMAIN reqs : Create(i)
    \/ \E i \in DOMAIN reqs : Reget(i)
    \/ \E i \in DOMAIN reqs : Save(i)

SpecConc == InitConc /\ [][NextConc]_vars

\* the percentage computation on its own, over every count of lectures
InitPercent ==
    /\ EmptyStore /\ last = NoOutcome /\ reqs = << >>
    /\ \E t \in 0..MaxTotal : \E c \in 0..t :
          calc = [pc |-> "start", total |-> t, completed |-> c, percent |-> 0]

ComputePercent ==
    /\ calc.pc = "start"
    /\ calc' = [calc EXCEPT !.pc = "done",
                            !.percent = progress_percent(calc.completed, calc.total)]
    /\ UNCHANGED <<store, last, reqs>>

SpecPercent == InitPercent /\ [][ComputePercent]_vars

(***************************************************************************)
(* Properties.                                                             *)
(***************************************************************************)
CourseIds == 1..MaxCourses
LectureIds == 1..MaxLectures

\* the Enrollment rows of a (student, course) pair
EnrollmentCount(s, c) ==
    Cardinality({i \in DOMAIN Enrollment :
                    Enrollment[i].student = s /\ Enrollment[i].course = c})

ProgressRow(s, l, done) == [student |-> s, lecture |-> l, completed |-> done]

\* the LectureProgress rows of a (student, lecture) pair
ProgressCount(s, l) ==
    CopiesIn(ProgressRow(s, l, TRUE), LectureProgress)
    + CopiesIn(ProgressRow(s, l, FALSE), LectureProgress)

CourseExists(c) == \E i \in DOMAIN Course : Course[i].id = c
LectureExists(l) == \E i \in DOMAIN Lecture : Lecture[i].id = l

\* the lectures there are in the modules of course c
LectureIdsOf(c) ==
    {Lecture[i].id : i \in {k \in DOMAIN Lecture :
        \E j \in DOMAIN Module :
            Module[j].id = Lecture[k].module /\ Module[j].course = c}}

Ids(rows) == {rows[i].id : i \in DOMAIN rows}

\* the n-th smallest member of a set of numbers
NthOf(S, n) == CHOOSE x \in S : Cardinality({y \in S : y < x}) = n - 1

\* C1: there is never more than one Enrollment row of a (student, course)
\* pair, and Enroll(s, c) for a student s and an existing course c leaves
\* exactly one row of (s, c); when the row was there already, the call changes
\* nothing in the store and answers with the existing record.
C1_EnrollIdempotent ==
    /\ [](\A s \in Users, c \in CourseIds : EnrollmentCount(s, c) <= 1)
    /\ [][\A u \in Students, c \in CourseIds :
            enroll_course(u, c) /\ CourseExists(c) =>
                /\ EnrollmentCount(u, c)' = 1
                /\ EnrollmentCount(u, c) = 1 =>
                      UNCHANGED store /\ last'.status = "existing"]_vars

\* a second Enroll of an enrolled pair has been answered
C1_EnrolledTwice ==
    /\ last.op = "enroll_course" /\ last.status = "existing"
    /\ \E s \in Students, c \in CourseIds : EnrollmentCount(s, c) = 1

\* C2: there is never more than one LectureProgress row of a (student,
\* lecture) pair, and MarkComplete(s, l) for a student s and an existing
\* lecture l leaves exactly one row of (s, l), with completed true (a row with
\* completed false is updated, not doubled); when the completed row was there
\* already, the call changes nothing in the store.
C2_MarkCompleteIdempotent ==
    /\ [](\A s \in Users, l \in LectureIds : ProgressCount(s, l) <= 1)
    /\ [][\A u \in Students, l \in LectureIds :
            mark_lecture_complete(u, l) /\ LectureExists(l) =>
                /\ ProgressCount(u, l)' = 1
                /\ CopiesIn(ProgressRow(u, l, TRUE), LectureProgress)' = 1
                /\ CopiesIn(ProgressRow(u, l, TRUE), LectureProgress) = 1 =>
                      UNCHANGED store]_vars

\* s2, who began with no row, has marked lecture 1 complete a second time
C2_MarkedTwice ==
    /\ last.op = "mark_lecture_complete" /\ last.status = "updated"
    /\ CopiesIn(ProgressRow("s2", 1, TRUE), LectureProgress) = 1
    /\ ProgressCount("s1", 1) = 0

Finished(r) == r.pc \in {"created", "existing", "updated"}
Failed(r) == r.pc \in {"MultipleObjectsReturned", "IntegrityError"}

\* C3: however the statements of concurrent Enroll and MarkComplete requests
\* interleave, no pair ever has two rows, no request fails (a refused INSERT
\* is answered with the row that is there), and once a request has finished
\* there is exactly one row of its pair, for MarkComplete with completed true.
C3_NoDuplicateUnderRace ==
    /\ \A s \in Students : EnrollmentCount(s, 1) <= 1 /\ ProgressCount(s, 1) <= 1
    /\ \A i \in DOMAIN reqs :
          /\ ~Failed(reqs[i])
          /\ Finished(reqs[i]) =>
                IF reqs[i].op = "enroll_course"
                THEN EnrollmentCount(reqs[i].user, reqs[i].target) = 1
                ELSE /\ ProgressCount(reqs[i].user, reqs[i].target) = 1
                     /\ CopiesIn(ProgressRow(reqs[i].user, reqs[i].target, TRUE),
                                 LectureProgress) = 1

\* two requests of one pair both found no row; one has inserted it and the
\* INSERT of the other has been refused
C3_ConflictingCreate ==
    \E i, j \in DOMAIN reqs :
        /\ i # j /\ reqs[i].op = reqs[j].op /\ reqs[i].user = reqs[j].user
        /\ reqs[i].pc = "created" /\ reqs[j].pc = "conflict"

\* C4: the percent of GetCourseProgress is exactly floor(completed * 100 /
\* total) for every 0 <= completed <= total with total > 0.
C4_PercentIsFloor ==
    calc.pc = "done" /\ calc.total > 0 =>
        calc.percent = (calc.completed * 100) \div calc.total

\* C5: for an enrolled student and a course without lectures, GetCourseProgress
\* answers total 0, completed 0 and percent 0 and raises no fault, whatever
\* rows the student holds for lectures of other courses.
C5_ZeroLecturesZeroPercent ==
    \A s \in Users, c \in CourseIds :
        EnrollmentCount(s, c) = 1 /\ LectureIdsOf(c) = {} =>
            LET p == student_progress(s, c)
                d == student_course_detail(s, c)
            IN  /\ p.status = "200" /\ p.total = 0 /\ p.completed = 0
                /\ p.progress_percent = 0
                /\ d.status = "200" /\ d.total = 0 /\ d.completed = 0
                /\ d.progress_percent = 0

\* a student enrolled in a course whose only modules are empty holds a
\* completed row for a lecture of another course
C5_EmptyCourseOtherProgress ==
    \E s \in Students, c \in CourseIds :
        /\ EnrollmentCount(s, c) = 1 /\ LectureIdsOf(c) = {}
        /\ \E i \in DOMAIN Module : Module[i].course = c
        /\ \E l \in LectureIds : CopiesIn(ProgressRow(s, l, TRUE), LectureProgress) = 1

\* C6: for every student the enrolled list and the unenrolled list partition
\* the courses (their union is every course, they share none, neither repeats
\* a course), and a course is in the enrolled list, and flagged is_enrolled,
\* exactly when the student has an Enrollment row for it.
C6_EnrolledUnenrolledPartition ==
    \A s \in Students :
        LET en == student_dashboard(s)
            un == browse_courses(s)
            li == student_course_list(s)
        IN  /\ en.status = "200" /\ un.status = "200" /\ li.status = "200"
            /\ Ids(en.enrolled_courses) \cup Ids(un.courses) = Ids(Course)
            /\ Ids(en.enrolled_courses) \cap Ids(un.courses) = {}
            /\ Len(en.enrolled_courses) = Cardinality(Ids(en.enrolled_courses))
            /\ Len(un.courses) = Cardinality(Ids(un.courses))
            /\ \A c \in Ids(Course) :
                  c \in Ids(en.enrolled_courses) <=> EnrollmentCount(s, c) >= 1
            /\ \A i \in DOMAIN li.courses :
                  li.courses[i].is_enrolled <=> EnrollmentCount(s, li.courses[i].id) >= 1

\* a student is enrolled in one course and not in another
C6_BothListsNonEmpty ==
    \E s \in Students :
        /\ student_dashboard(s).enrolled_courses # << >>
        /\ browse_courses(s).courses # << >>

Titled(post, key) == Truthy(PostGet(post.titles, key, None))

ModuleTotal(post) == IntOf(PostGet(post.form, "modules-TOTAL_FORMS", "0"))

\* the module indices below the module count that carry a title
TitledModules(post) == {i \in 0..(ModuleTotal(post) - 1) : Titled(post, <<i>>)}

\* the length of the longest run of titled lecture indices of module i from 0
TitledPrefix(post, i) ==
    CHOOSE k \in 0..(MaxLectureIndex + 1) :
        /\ \A j \in 0..(k - 1) : Titled(post, <<i, j>>)
        /\ ~Titled(post, <<i, k>>)

\* C7: a course submission with module count N adds to the Module table
\* exactly one row for each index below N with a non-empty title, in index
\* order, and to the Lecture table, for each of these modules, exactly the
\* lectures of the longest run of titled lecture indices from 0; an index
\* with an empty or missing title ends the lectures of that module only.
C7_BulkAuthoring ==
    [][last'.op = "add_course" /\ last'.status = "redirect" =>
        LET post == last'.body
            made == SubSeq(Module', Len(Module) + 1, Len(Module'))
            lectures == SubSeq(Lecture', Len(Lecture) + 1, Len(Lecture'))
        IN  /\ SubSeq(Module', 1, Len(Module)) = Module
            /\ SubSeq(Lecture', 1, Len(Lecture)) = Lecture
            /\ Len(made) = Cardinality(TitledModules(post))
            /\ Cardinality(Ids(Module')) = Len(Module')
            /\ \A k \in 1..Len(made) :
                  LET i == NthOf(TitledModules(post), k)
                      own == SelectSeq(lectures, LAMBDA l : l.module = made[k].id)
                  IN  /\ made[k].course = Course'[Len(Course')].id
                      /\ made[k].title = post.titles[<<i>>]
                      /\ Len(own) = TitledPrefix(post, i)
                      /\ \A j \in 1..Len(own) : own[j].title = post.titles[<<i, j - 1>>]
            /\ \A j \in 1..Len(lectures) :
                  \E k \in 1..Len(made) : lectures[j].module = made[k].id]_vars

\* module 0 titled, its lectures 0 and 1 titled and its lecture 2 empty, sent
\* to the empty store: one module and two lectures
C7_TwoLecturesThenEmpty ==
    /\ last.op = "add_course" /\ last.status = "redirect"
    /\ ModuleTotal(last.body) >= 1
    /\ DOMAIN last.body.titles = {<<0>>, <<0, 0>>, <<0, 1>>, <<0, 2>>}
    /\ last.body.titles[<<0>>] = "t" /\ last.body.titles[<<0, 0>>] = "t"
    /\ last.body.titles[<<0, 1>>] = "t" /\ last.body.titles[<<0, 2>>] = ""
    /\ Len(Course) = 1 /\ Len(Module) = 1 /\ Len(Lecture) = 2

\* a submission add_course cannot take: no title, or a module count that is
\* no number
Malformed(post) ==
    \/ ~FormValid(post.form)
    \/ ~ParsesAsInt(PostGet(post.form, "modules-TOTAL_FORMS", "0"))

\* C8: a Create or Update submission with malformed input leaves the Course,
\* Module and Lecture tables as they were.
C8_RejectedBeforePersistence ==
    [][/\ last'.op = "add_course" /\ Malformed(last'.body) =>
             UNCHANGED <<Course, Module, Lecture>>
       /\ last'.op = "course_edit" /\ ~FormValid(last'.body) =>
             UNCHANGED <<Course, Module, Lecture>>]_vars

\* lecture l is in a module of course c, a course of instructor u
Owned(u, c, l) ==
    \E x \in Range(Lecture), m \in Range(Module), k \in Range(Course) :
        /\ x.id = l /\ m.id = x.module /\ m.course = c
        /\ k.id = c /\ k.instructor = u

\* C9: the completed count of GetCourseProgress and of BuildProgressReport
\* counts only completed rows whose lecture is in a module of the course, so
\* 0 <= completed <= total and percent <= 100 always; and DeleteLecture, asked
\* by the instructor of the course, removes that Lecture row and nothing else.
C9_DeleteLectureAndAggregates ==
    /\ [](\A s \in Users, c \in CourseIds :
            EnrollmentCount(s, c) = 1 =>
                LET p == student_progress(s, c)
                IN  /\ p.status = "200"
                    /\ p.completed = Cardinality({l \in LectureIdsOf(c) :
                          CopiesIn(ProgressRow(s, l, TRUE), LectureProgress) > 0})
                    /\ 0 <= p.completed /\ p.completed <= p.total
                    /\ p.progress_percent <= 100)
    /\ [][\A u \in Instructors, c \in CourseIds, l \in LectureIds :
            delete_lecture(u, c, l) /\ Owned(u, c, l) =>
                /\ Lecture' = SelectSeq(Lecture, LAMBDA x : x.id # l)
                /\ UNCHANGED <<Course, Module, Enrollment, LectureProgress>>]_vars

\* C10: the report of a course to its instructor has one row for each
\* Enrollment of the course, in the order the enrollments were made, and each
\* row's total and completed are those GetCourseProgress gives that student.
C10_ReportMatchesProgress ==
    \A u \in Instructors, c \in CourseIds :
        (\E k \in Range(Course) : k.id = c /\ k.instructor = u) =>
            LET r == course_progress_report(u, c)
                at == {i \in DOMAIN Enrollment : Enrollment[i].course = c}
            IN  /\ r.status = "200"
                /\ Len(r.progress_data) = Cardinality(at)
                /\ \A k \in 1..Len(r.progress_data) :
                      LET row == r.progress_data[k]
                          own == student_progress(row.student, c)
                      IN  /\ row.student = Enrollment[NthOf(at, k)].student
                          /\ own.status = "200"
                          /\ row.total = own.total
                          /\ row.completed = own.completed

\* course 1 has two modules of one lecture each; s2 enrolled before s1 and has
\* completed one lecture
C10_TwoRowsInOrder ==
    LET r == course_progress_report("i1", 1)
    IN  /\ r.status = "200" /\ Len(r.progress_data) = 2
        /\ r.progress_data[1].student = "s2" /\ r.progress_data[2].student = "s1"
        /\ r.progress_data[1].total = 2 /\ r.progress_data[1].completed = 1
        /\ Cardinality({i \in DOMAIN Module : Module[i].course = 1}) = 2
=============================================================================
